---------------------------- MODULE Spec2Model ----------------------------
(***************************************************************************)
(* Model of the Previmed chat assistant (src/app.py).                      *)
(*                                                                         *)
(* A text is a sequence of one-character strings, so that lower(),         *)
(* strip(), substring search and the two regular expressions of the slot   *)
(* extractors are computed character by character as the code does.        *)
(* A Python optional value is None (the empty tuple) or Some(v) (the       *)
(* one-element tuple <<v>>).                                               *)
(***************************************************************************)
EXTENDS Integers, Sequences, FiniteSets, TLC

None == <<>>

Some(v) == <<v>>

\* Python truthiness of an optional string / of an optional integer
TruthyStr(o) == o # None /\ Len(o[1]) > 0

TruthyInt(o) == o # None /\ o[1] # 0

Min(S) == CHOOSE m \in S : \A o \in S : m <= o

(***************************************************************************)
(* Characters and strings                                                  *)
(***************************************************************************)
Digitos == {"0","1","2","3","4","5","6","7","8","9"}

Minusculas ==
    {"a","b","c","d","e","f","g","h","i","j","k","l","m",
     "n","o","p","q","r","s","t","u","v","w","x","y","z"}

Mayusculas ==
    {"A","B","C","D","E","F","G","H","I","J","K","L","M",
     "N","O","P","Q","R","S","T","U","V","W","X","Y","Z"}

Acentuadas == {"á","é","í","ó","ú","Á","É","Í","Ó","Ú","ñ","Ñ"}

\* str.lower() on one character, for the characters the model uses
LowerChar(c) ==
    CASE c = "A" -> "a" [] c = "B" -> "b" [] c = "C" -> "c" [] c = "D" -> "d"
      [] c = "E" -> "e" [] c = "F" -> "f" [] c = "G" -> "g" [] c = "H" -> "h"
      [] c = "I" -> "i" [] c = "J" -> "j" [] c = "K" -> "k" [] c = "L" -> "l"
      [] c = "M" -> "m" [] c = "N" -> "n" [] c = "O" -> "o" [] c = "P" -> "p"
      [] c = "Q" -> "q" [] c = "R" -> "r" [] c = "S" -> "s" [] c = "T" -> "t"
      [] c = "U" -> "u" [] c = "V" -> "v" [] c = "W" -> "w" [] c = "X" -> "x"
      [] c = "Y" -> "y" [] c = "Z" -> "z" [] c = "Á" -> "á" [] c = "É" -> "é"
      [] c = "Í" -> "í" [] c = "Ó" -> "ó" [] c = "Ú" -> "ú" [] c = "Ñ" -> "ñ"
      [] OTHER -> c

Lower(s) == [i \in 1..Len(s) |-> LowerChar(s[i])]

\* str.strip(): drop leading and trailing blanks
Strip(s) ==
    LET I == {i \in 1..Len(s) : s[i] # " "}
    IN  IF I = {} THEN <<>>
        ELSE SubSeq(s, Min(I), CHOOSE m \in I : \A o \in I : o <= m)

\* Python "w in s" for strings
Contiene(s, w) ==
    \E i \in 1..(Len(s) - Len(w) + 1) : SubSeq(s, i, i + Len(w) - 1) = w

\* a character matched by \w
EsPalabra(c) ==
    c \in Digitos \cup Minusculas \cup Mayusculas \cup Acentuadas \cup {"_"}

\* str.split(): the number of maximal runs of non-blank characters
NumPalabras(s) ==
    Cardinality({i \in 1..Len(s) : s[i] # " " /\ (i = 1 \/ s[i-1] = " ")})

(***************************************************************************)
(* Slot extractors                                                         *)
(***************************************************************************)
motivo_palabras ==
    << <<"d","o","l","o","r">>,
       <<"f","i","e","b","r","e">>,
       <<"t","o","s">>,
       <<"g","r","i","p","e">>,
       <<"m","a","r","e","o">>,
       <<"n","á","u","s","e","a">>,
       <<"n","a","u","s","e","a">>,
       <<"v","o","m","i","t","o">>,
       <<"v","ó","m","i","t","o">>,
       <<"c","a","n","s","a","n","c","i","o">>,
       <<"f","r","a","c","t","u","r","a">>,
       <<"g","o","l","p","e">>,
       <<"r","e","s","f","r","i","a","d","o">>,
       <<"m","i","g","r","a","ñ","a">>,
       <<"d","i","a","r","r","e","a">>,
       <<"p","r","e","s","i","ó","n">>,
       <<"h","i","p","e","r","t","e","n","s","i","ó","n">>,
       <<"h","i","p","o","t","e","n","s","i","ó","n">>,
       <<"a","s","m","a">>,
       <<"a","l","e","r","g","i","a">>,
       <<"i","n","f","e","c","c","i","ó","n">> >>

\* the "frases comunes" of posible_motivo
motivo_frases ==
    << <<"m","e"," ","d","u","e","l","e">>,
       <<"c","o","n","s","u","l","t","a">>,
       <<"r","e","v","i","s","i","ó","n">>,
       <<"r","e","v","i","s","i","o","n">>,
       <<"v","i","s","i","t","a">> >>

\* the alternatives of addr_regex between the two \b
addr_palabras ==
    << <<"c","r","a">>,
       <<"c","r">>,
       <<"c","r","a",".">>,
       <<"c","a","r","r","e","r","a">>,
       <<"c","l","l">>,
       <<"c","a","l","l","e">>,
       <<"a","v">>,
       <<"a","v","e","n","i","d","a">> >>

\* \b between positions i-1 and i of s (1 <= i <= Len(s)+1)
Frontera(s, i) ==
    LET antes == i > 1 /\ EsPalabra(s[i-1])
        despues == i <= Len(s) /\ EsPalabra(s[i])
    IN  antes # despues

\* addr_regex.search(texto): \b(cra|...|avenida)\b or \b#\b, ignoring case
addr_regex(s) ==
    LET l == Lower(s)
    IN  \/ \E k \in 1..Len(addr_palabras) :
             \E i \in 1..(Len(l) - Len(addr_palabras[k]) + 1) :
                /\ SubSeq(l, i, i + Len(addr_palabras[k]) - 1) = addr_palabras[k]
                /\ Frontera(s, i)
                /\ Frontera(s, i + Len(addr_palabras[k]))
        \/ \E i \in 1..Len(s) :
             s[i] = "#" /\ Frontera(s, i) /\ Frontera(s, i + 1)

\* the last position of the run of digits that starts at i (i-1 if none)
FinDigitos(s, i) ==
    LET J == {j \in i..Len(s) : \A m \in i..j : s[m] \in Digitos}
    IN  IF J = {} THEN i - 1 ELSE CHOOSE j \in J : \A o \in J : o <= j

\* tel_regex matched at position i of s (s has no blanks): the position
\* of the last matched character, 0 when there is no match at i.
\* (?<!\d)(\+?57)?\s*(3\d{9}|\d{7,10})(?!\d)
tel_regex(s, i) ==
    LET largo(a) == FinDigitos(s, a) - a + 1
        sigue57(a) == a + 1 <= Len(s) /\ s[a] = "5" /\ s[a+1] = "7"
    IN  IF i > 1 /\ s[i-1] \in Digitos THEN 0
        ELSE IF s[i] = "+"
             THEN IF sigue57(i + 1) /\ largo(i + 3) \in 7..10
                  THEN FinDigitos(s, i + 3) ELSE 0
        ELSE IF s[i] \in Digitos
             THEN IF \/ largo(i) \in 7..10
                     \/ sigue57(i) /\ largo(i + 2) \in 7..10
                  THEN FinDigitos(s, i) ELSE 0
        ELSE 0

posible_telefono(texto) ==
    LET s == SelectSeq(texto, LAMBDA c : c # " ")
        I == {i \in 1..Len(s) : tel_regex(s, i) > 0}
    IN  IF I = {} THEN None
        ELSE LET i == Min(I)
                 e == tel_regex(s, i)
             IN  \* num.replace("+57", "")
                 Some(IF s[i] = "+" THEN SubSeq(s, i + 3, e) ELSE SubSeq(s, i, e))

posible_direccion(texto) ==
    IF addr_regex(texto) /\ \E i \in 1..Len(texto) : texto[i] \in Digitos
    THEN Some(Strip(texto)) ELSE None

posible_motivo(texto) ==
    LET t == Lower(texto)
    IN  IF \/ \E k \in 1..Len(motivo_palabras) : Contiene(t, motivo_palabras[k])
           \/ \E k \in 1..Len(motivo_frases) : Contiene(t, motivo_frases[k])
        THEN Some(Strip(texto)) ELSE None

MaxNombre == 60

posible_nombre(texto) ==
    LET limpio == Strip(SelectSeq(texto, LAMBDA c :
                     c \in Minusculas \cup Mayusculas \cup Acentuadas \cup {" "}))
    IN  IF NumPalabras(limpio) >= 2 /\ Len(limpio) <= MaxNombre
        THEN Some(limpio) ELSE None


(***************************************************************************)
(* Bounds and inputs                                                       *)
(***************************************************************************)
\* requests received in one run
MaxTurnos == 4

\* handlers suspended at an awaited backend call at the same time
MaxPendientes == 1

\* requests received in a run that fills slots, in a run that fills the
\* history, and in a run over every kind of request and model output
MaxTurnosRelleno == 3

MaxTurnosHistorial == 6

MaxTurnosGeneral == 2

\* requests received in a run that books a visit with its confirmation
MaxTurnosReserva == 5

\* requests received, and handlers suspended at the same time, in a run
\* where requests of one caller overlap
MaxTurnosConcurrente == 5

MaxPendientesConcurrente == 2

\* requests received in a run that books from listings of every kind
MaxTurnosOferta == 4

\* requests received in a run that selects from the cached listings
MaxTurnosSeleccion == 3

\* historial[-10:]
MaxHistorial == 10

\* the scenario of the phone slot
T_tel1 == <<"3","0","0","1","2","3","4","5","6","7">>

T_tel2 == <<"+","5","7"," ","3","1","0"," ","9","8","7","6","5","4","3">>

\* fills every slot a text can fill and names a doctor and a neighborhood
T_a == <<"c","l","l"," ","8"," ","t","o","s"," ","3","0","0","1","2","3","4","5","6","7"," ","A","n","a"," ","M","o","d","e","l","o">>

\* the same with other values
T_b == <<"a","v"," ","2"," ","g","r","i","p","e"," ","3","1","0","9","8","7","6"," ","l","u","i","s"," ","g","i","l"," ","e","n"," ","c","e","n","t","r","o">>

T_modelo == <<"M","o","d","e","l","o">>

T_ana == <<"b","a","n","a","n","a">>

T_cancelar == <<"q","u","i","e","r","o"," ","c","a","n","c","e","l","a","r">>

T_si == <<"s","i">>

T_blanco == <<" "," ">>

\* MensajeEntrada.texto
Textos == {T_tel1, T_tel2, T_a, T_b, T_modelo, T_ana, T_cancelar, T_si, T_blanco}

\* MensajeEntrada.documento
Documentos == {None, Some("123")}

N_Ana == <<"A","n","a">>

N_Paz == <<"P","a","z">>

N_Luis == <<"L","u","i","s">>

N_Gil == <<"G","i","l">>

N_Modelo == <<"M","o","d","e","l","o">>

N_Centro == <<"C","e","n","t","r","o">>

Medico(id, nom, ape, est, disp) ==
    [id_medico |-> id, usuario |-> [nombre |-> nom, apellido |-> ape],
     estado |-> est, disponibilidad |-> disp]

Barrio(id, nom, est) == [idBarrio |-> id, nombreBarrio |-> nom, estado |-> est]

\* the bodies the backend may answer GET /medicos/ with (the key "data")
MedicosBackend ==
    { << Medico(1, N_Ana, N_Paz, TRUE, TRUE), Medico(2, N_Luis, N_Gil, TRUE, TRUE) >>,
      << Medico(2, N_Luis, N_Gil, TRUE, TRUE), Medico(1, N_Ana, N_Paz, TRUE, FALSE) >>,
      << Medico(1, N_Ana, N_Paz, FALSE, TRUE) >>,
      << >> }

\* the bodies the backend may answer GET /barrios with (the key "msj")
BarriosBackend ==
    { << Barrio(1, N_Modelo, TRUE), Barrio(2, N_Centro, TRUE) >>,
      << Barrio(1, N_Modelo, FALSE), Barrio(2, N_Centro, TRUE) >>,
      << >> }

\* the patient the backend knows for the document
PacienteBackend == [id_paciente |-> 7]

\* An HTTP exchange: status 0 stands for "no response" (network error or
\* timeout); cuerpo is None when the body is not JSON.
Http(status, cuerpo) == [status |-> status, cuerpo |-> cuerpo]

SinRespuesta == Http(0, None)

ErrorServidor == Http(500, None)

\* resp.raise_for_status() passes and resp.json() parses
Exito(http) == http.status \in 200..299 /\ http.cuerpo # None

MembresiaHttp ==
    { Http(200, Some([ok |-> TRUE, paciente |-> Some(PacienteBackend)])),
      Http(200, Some([ok |-> FALSE, paciente |-> None])),
      Http(200, Some([ok |-> TRUE, paciente |-> None])),
      ErrorServidor, SinRespuesta }

MedicosHttp == {Http(200, Some(l)) : l \in MedicosBackend} \cup {ErrorServidor, SinRespuesta}

BarriosHttp == {Http(200, Some(l)) : l \in BarriosBackend} \cup {ErrorServidor, SinRespuesta}

\* POST /visitas: created with an identifier, a 2xx body without one, failures
VisitaHttp ==
    { Http(201, Some([id_visita |-> Some(1)])),
      Http(200, Some([id_visita |-> None])),
      Http(200, None), ErrorServidor, SinRespuesta }

Acciones ==
    {"info", "verificar_membresia", "listar_medicos", "listar_barrios",
     "pedir_dato", "confirmar_datos", "crear_visita"}

\* What the chat completion may produce: the call raises or the content is
\* not JSON ("excepcion"), JSON that is not an object ("no_objeto"), or an
\* object whose key "accion" is absent (None) or holds some string.
LLMSalidas ==
    {[tipo |-> "excepcion", accion |-> None], [tipo |-> "no_objeto", accion |-> None]}
      \cup {[tipo |-> "objeto", accion |-> a] :
               a \in {None} \cup {Some(x) : x \in Acciones \cup {"otra"}}}

(***************************************************************************)
(* Backend clients                                                         *)
(***************************************************************************)
verificar_membresia_activa(http) ==
    IF Exito(http)
    THEN [ok |-> http.cuerpo[1].ok, paciente |-> http.cuerpo[1].paciente, error |-> FALSE]
    ELSE [ok |-> FALSE, paciente |-> None, error |-> TRUE]

\* get_medicos without the filter of line 122
get_medicos_SinFiltro(http) ==
    IF Exito(http) THEN Some(http.cuerpo[1]) ELSE None

\* a list (Some) of the active and available doctors, or the error dict (None)
get_medicos(http) ==
    IF Exito(http)
    THEN Some(SelectSeq(http.cuerpo[1], LAMBDA m : m.estado /\ m.disponibilidad))
    ELSE None

\* get_barrios without the filter of line 132
get_barrios_SinFiltro(http) ==
    IF Exito(http) THEN Some(http.cuerpo[1]) ELSE None

get_barrios(http) ==
    IF Exito(http)
    THEN Some(SelectSeq(http.cuerpo[1], LAMBDA b : b.estado))
    ELSE None

crear_visita(http) ==
    IF Exito(http) THEN [ok |-> TRUE, data |-> http.cuerpo]
    ELSE [ok |-> FALSE, data |-> None]


(***************************************************************************)
(* State                                                                   *)
(***************************************************************************)
VARIABLES
    conversaciones,   \* dict: caller key -> reference of a history list
    estado_usuario,   \* dict: caller key -> reference of a slot dict
    listas,           \* the history list objects, by reference
    estados,          \* the slot dict objects, by reference
    pendientes,       \* the frames of the handlers suspended at an await
    turno,            \* number of requests received
    visitas,          \* the POST /visitas requests sent to the backend
    ultima            \* the last response returned, None before the first

vars == <<conversaciones, estado_usuario, listas, estados, pendientes,
          turno, visitas, ultima>>

\* finite maps
Vacio == [x \in {} |-> None]

Poner(f, k, v) == [x \in DOMAIN f \cup {k} |-> IF x = k THEN v ELSE f[x]]

Quitar(f, k) == [x \in DOMAIN f \ {k} |-> f[x]]

Imagen(f) == {f[x] : x \in DOMAIN f}

\* a reference not in use in heap h
NuevaRef(h) == Min((1..(Cardinality(DOMAIN h) + 1)) \ DOMAIN h)

\* the dict created on first contact (lines 172-184)
\* EstadoInicial with a patient already bound
EstadoInicial_Verificado ==
    [nombre |-> None, telefono |-> None, direccion |-> None, motivo |-> None,
     barrio_nombre |-> None, barrio_id |-> None, medico_nombre |-> None,
     medico_id |-> None, paciente_id |-> Some(PacienteBackend.id_paciente),
     medicos_cache |-> <<>>, barrios_cache |-> <<>>]

EstadoInicial ==
    [nombre |-> None, telefono |-> None, direccion |-> None, motivo |-> None,
     barrio_nombre |-> None, barrio_id |-> None,
     medico_nombre |-> None, medico_id |-> None, paciente_id |-> None,
     medicos_cache |-> <<>>, barrios_cache |-> <<>>]

NombreCompleto(m) == m.usuario.nombre \o <<" ">> \o m.usuario.apellido

(***************************************************************************)
(* Step 0 of chat: the extraction pass (lines 189-232)                     *)
(***************************************************************************)
\* The detectors and the lowered text of lines 189-207, for every text the
\* model feeds (texto is mensaje.texto.strip(), line 162).
Deteccion ==
    [t \in Textos |->
        [texto |-> Strip(t),
         t_low |-> Lower(Strip(t)),
         tel |-> posible_telefono(Strip(t)),
         dire |-> posible_direccion(Strip(t)),
         mot |-> posible_motivo(Strip(t)),
         nom |-> posible_nombre(Strip(t))]]

\* ExtraerTelefono without the test that the slot is empty
ExtraerTelefono_Sobrescribe(e, d) ==
    IF TruthyStr(d.tel) THEN [e EXCEPT !.telefono = d.tel] ELSE e

ExtraerTelefono(e, d) ==
    IF TruthyStr(d.tel) /\ ~TruthyStr(e.telefono)
    THEN [e EXCEPT !.telefono = d.tel] ELSE e

ExtraerDireccion(e, d) ==
    IF TruthyStr(d.dire) /\ ~TruthyStr(e.direccion)
    THEN [e EXCEPT !.direccion = d.dire] ELSE e

ExtraerMotivo(e, d) ==
    IF TruthyStr(d.mot) /\ ~TruthyStr(e.motivo)
    THEN [e EXCEPT !.motivo = d.mot] ELSE e

ExtraerNombre(e, d) ==
    IF TruthyStr(d.nom) /\ ~TruthyStr(e.nombre)
    THEN [e EXCEPT !.nombre = d.nom] ELSE e

\* SeleccionarMedico binding the identifier without the name
SeleccionarMedico_SinNombre(e, d) ==
    LET cache == e.medicos_cache
        M == {i \in 1..Len(cache) :
                \/ Contiene(d.t_low, Lower(cache[i].usuario.nombre))
                \/ Contiene(d.t_low, Lower(NombreCompleto(cache[i])))}
    IN  IF Len(cache) > 0 /\ ~TruthyInt(e.medico_id) /\ M # {}
        THEN [e EXCEPT !.medico_id = Some(cache[Min(M)].id_medico)]
        ELSE e

SeleccionarMedico(e, d) ==
    LET cache == e.medicos_cache
        M == {i \in 1..Len(cache) :
                \/ Contiene(d.t_low, Lower(cache[i].usuario.nombre))
                \/ Contiene(d.t_low, Lower(NombreCompleto(cache[i])))}
    IN  IF Len(cache) > 0 /\ ~TruthyInt(e.medico_id) /\ M # {}
        THEN [e EXCEPT !.medico_id = Some(cache[Min(M)].id_medico),
                       !.medico_nombre = Some(NombreCompleto(cache[Min(M)]))]
        ELSE e

\* SeleccionarBarrio comparing the name as it is written
SeleccionarBarrio_SinMinusculas(e, d) ==
    LET cache == e.barrios_cache
        M == {i \in 1..Len(cache) : Contiene(d.t_low, cache[i].nombreBarrio)}
    IN  IF Len(cache) > 0 /\ ~TruthyInt(e.barrio_id) /\ M # {}
        THEN [e EXCEPT !.barrio_id = Some(cache[Min(M)].idBarrio),
                       !.barrio_nombre = Some(cache[Min(M)].nombreBarrio)]
        ELSE e

SeleccionarBarrio(e, d) ==
    LET cache == e.barrios_cache
        M == {i \in 1..Len(cache) : Contiene(d.t_low, Lower(cache[i].nombreBarrio))}
    IN  IF Len(cache) > 0 /\ ~TruthyInt(e.barrio_id) /\ M # {}
        THEN [e EXCEPT !.barrio_id = Some(cache[Min(M)].idBarrio),
                       !.barrio_nombre = Some(cache[Min(M)].nombreBarrio)]
        ELSE e

\* the extraction pass on slot dict e for a text with detections d
Extraer(e, d) ==
    SeleccionarBarrio(
      SeleccionarMedico(
        ExtraerNombre(
          ExtraerMotivo(
            ExtraerDireccion(
              ExtraerTelefono(e, d), d), d), d), d), d)

(***************************************************************************)
(* The chat handler (lines 160-392)                                        *)
(*                                                                         *)
(* The handler is a coroutine: it runs without interruption up to an       *)
(* awaited backend call, where other requests may be served, and from the  *)
(* answer of that call to its return.  The chat completion is a blocking   *)
(* call and does not suspend it.                                           *)
(***************************************************************************)
Mundo ==
    [conv |-> conversaciones, usu |-> estado_usuario,
     listas |-> listas, estados |-> estados]

\* doc = mensaje.documento or "default"
Clave(mensaje) ==
    IF mensaje.documento # None /\ mensaje.documento[1] # ""
    THEN mensaje.documento[1] ELSE "default"

\* Lines 168-232: the history list and the slot dict of the caller, created
\* when absent, and the extraction pass on the slot dict.
Recibir(w, mensaje) ==
    LET d == Deteccion[mensaje.texto]
        doc == Clave(mensaje)
        h == IF doc \in DOMAIN w.conv THEN w.conv[doc] ELSE NuevaRef(w.listas)
        e == IF doc \in DOMAIN w.usu THEN w.usu[doc] ELSE NuevaRef(w.estados)
        ls == IF doc \in DOMAIN w.conv THEN w.listas ELSE Poner(w.listas, h, <<>>)
        es == IF doc \in DOMAIN w.usu THEN w.estados ELSE Poner(w.estados, e, EstadoInicial)
    IN  [texto |-> d.texto, doc |-> doc, historial |-> h, estado |-> e,
         w |-> [conv |-> w.conv,
                usu |-> Poner(w.usu, doc, e),
                listas |-> ls,
                estados |-> [es EXCEPT ![e] = Extraer(@, d)]]]

\* Lines 262-277: the action the model decided; "info" when the call
\* raised, the content was not JSON or the object has no key "accion".
Decidir(llm) ==
    IF llm.tipo = "excepcion" \/ llm.accion = None THEN "info" ELSE llm.accion[1]

oblig == <<"paciente_id", "medico_id", "barrio_id", "telefono", "direccion", "motivo">>

\* "not estado[c]" is false
Presente(e, c) ==
    IF c \in {"paciente_id", "medico_id", "barrio_id"}
    THEN TruthyInt(e[c]) ELSE TruthyStr(e[c])

\* Faltan with paciente_id left out of the required fields
Faltan_SinPaciente(e) == SelectSeq(Tail(oblig), LAMBDA c : ~Presente(e, c))

\* line 352, and lines 323-335 which test the same fields in the same order
Faltan(e) == SelectSeq(oblig, LAMBDA c : ~Presente(e, c))

Respuesta(tipo) == [tipo |-> tipo, faltan |-> <<>>]

SinDetalle ==
    [membresia |-> None, medicos |-> None, barrios |-> None,
     faltan |-> None, visita |-> None]

\* the arguments of crear_visita (lines 357-364)
Payload(e) ==
    [paciente_id |-> e.paciente_id, medico_id |-> e.medico_id,
     descripcion |-> e.motivo, direccion |-> e.direccion,
     telefono |-> e.telefono, barrio_id |-> e.barrio_id]

\* Llamada without the validation of line 353
Llamada_SinValidar(accion, mensaje, e) ==
    CASE accion = "verificar_membresia" /\ mensaje.documento # None
                                        /\ mensaje.documento[1] # "" -> Some("membresia")
      [] accion = "listar_medicos" -> Some("medicos")
      [] accion = "listar_barrios" -> Some("barrios")
      [] accion = "crear_visita" -> Some("visita")
      [] OTHER -> None

\* The branches that await a backend call: the name of the call, or None.
Llamada(accion, mensaje, e) ==
    CASE accion = "verificar_membresia" /\ mensaje.documento # None
                                        /\ mensaje.documento[1] # "" -> Some("membresia")
      [] accion = "listar_medicos" -> Some("medicos")
      [] accion = "listar_barrios" -> Some("barrios")
      [] accion = "crear_visita" /\ Faltan(e) = <<>> -> Some("visita")
      [] OTHER -> None

\* The branches that call no backend (lines 285-286, 322-346, 353-355, and
\* info / pedir_dato / any other string): the text and detail they produce.
SinLlamada(accion, e, base) ==
    CASE accion = "verificar_membresia" ->
            [respuesta |-> Respuesta("pedir_cedula"), detalle |-> SinDetalle]
      [] accion = "confirmar_datos" /\ Faltan(e) # <<>> ->
            [respuesta |-> [tipo |-> "faltan_confirmar", faltan |-> Faltan(e)],
             detalle |-> [SinDetalle EXCEPT !.faltan = Some(Faltan(e))]]
      [] accion = "confirmar_datos" /\ Faltan(e) = <<>> ->
            [respuesta |-> Respuesta("resumen"), detalle |-> SinDetalle]
      [] accion = "crear_visita" ->
            [respuesta |-> [tipo |-> "faltan_crear", faltan |-> Faltan(e)],
             detalle |-> [SinDetalle EXCEPT !.faltan = Some(Faltan(e))]]
      [] OTHER -> [respuesta |-> base, detalle |-> SinDetalle]

\* Ultimos keeping the oldest entries instead of the newest
Ultimos_Primeros(l, k) == IF Len(l) <= k THEN l ELSE SubSeq(l, 1, k)

Ultimos(l, k) == IF Len(l) <= k THEN l ELSE SubSeq(l, Len(l) - k + 1, Len(l))

Entrada(rol, n) == [role |-> rol, content |-> n]

\* Lines 382-384: the two entries are appended to the list the handler
\* holds and a new list with its last entries is stored.  The content of an
\* entry is the number of the request it belongs to.
Guardar(w, doc, h, n) ==
    LET l == w.listas[h] \o <<Entrada("user", n), Entrada("assistant", n)>>
        ls == [w.listas EXCEPT ![h] = l]
        nueva == NuevaRef(ls)
    IN  [w EXCEPT !.listas = Poner(ls, nueva, Ultimos(l, MaxHistorial)),
                  !.conv = Poner(w.conv, doc, nueva)]

\* Lines 387-392
Sobre(accion, respuesta, detalle) ==
    [ok |-> TRUE, accion |-> accion, respuesta |-> respuesta, detalle |-> detalle]

\* Objects no dict and no frame refers to are dropped, and the references
\* renumbered in order.
Recolectar(w, P) ==
    LET L == Imagen(w.conv) \cup {f.historial : f \in P}
        E == Imagen(w.usu) \cup {f.estado : f \in P}
        rl(x) == Cardinality({y \in L : y <= x})
        re(x) == Cardinality({y \in E : y <= x})
    IN  [conv |-> [k \in DOMAIN w.conv |-> rl(w.conv[k])],
         usu |-> [k \in DOMAIN w.usu |-> re(w.usu[k])],
         listas |-> [i \in 1..Cardinality(L) |-> w.listas[CHOOSE x \in L : rl(x) = i]],
         estados |-> [i \in 1..Cardinality(E) |-> w.estados[CHOOSE x \in E : re(x) = i]],
         pend |-> {[f EXCEPT !.historial = rl(@), !.estado = re(@)] : f \in P}]

Asentar(w, P) ==
    \E r \in {Recolectar(w, P)} :
        /\ conversaciones' = r.conv
        /\ estado_usuario' = r.usu
        /\ listas' = r.listas
        /\ estados' = r.estados
        /\ pendientes' = r.pend

\* what is recorded of a returned response: the request, the HTTP status,
\* the envelope, the slot dict the action was decided on, and the backend
\* call of the turn with its answer
Retorno(n, mensaje, status, sobre, previo, llamada, http) ==
    Some([n |-> n, doc |-> Clave(mensaje), texto |-> Deteccion[mensaje.texto].texto,
          status |-> status, sobre |-> sobre, previo |-> previo,
          llamada |-> llamada, http |-> http])

\* line 165: HTTPException(400, "Texto vacío")
ChatVacio(mensaje, maxTurnos) ==
    /\ turno < maxTurnos
    /\ Deteccion[mensaje.texto].texto = <<>>
    /\ turno' = turno + 1
    /\ ultima' = Retorno(turno + 1, mensaje, 400, None, None, None, None)
    /\ UNCHANGED <<conversaciones, estado_usuario, listas, estados, pendientes, visitas>>

\* line 277: data.get on a value that is not a dict raises outside any try;
\* the request ends with status 500 after the extraction pass
ChatNoObjeto(mensaje, llm, maxTurnos) ==
    /\ turno < maxTurnos
    /\ Deteccion[mensaje.texto].texto # <<>>
    /\ llm.tipo = "no_objeto"
    /\ \E r \in {Recibir(Mundo, mensaje)} :
           /\ Asentar(r.w, pendientes)
           /\ ultima' = Retorno(turno + 1, mensaje, 500, None,
                                Some(r.w.estados[r.estado]), None, None)
    /\ turno' = turno + 1
    /\ UNCHANGED visitas

\* a turn that awaits no backend call
ChatDirecto(mensaje, llm, maxTurnos) ==
    /\ turno < maxTurnos
    /\ Deteccion[mensaje.texto].texto # <<>>
    /\ llm.tipo # "no_objeto"
    /\ \E r \in {Recibir(Mundo, mensaje)} :
       LET e == r.w.estados[r.estado]
           accion == Decidir(llm)
           base == Respuesta(IF llm.tipo = "objeto" THEN "modelo" ELSE "defecto")
           s == SinLlamada(accion, e, base)
       IN  /\ Llamada(accion, mensaje, e) = None
           /\ Asentar(Guardar(r.w, r.doc, r.historial, turno + 1), pendientes)
           /\ ultima' = Retorno(turno + 1, mensaje, 200,
                                Some(Sobre(accion, s.respuesta, s.detalle)),
                                Some(e), None, None)
    /\ turno' = turno + 1
    /\ UNCHANGED visitas

\* a turn up to its awaited backend call
ChatLlamar(mensaje, llm, maxTurnos, maxPendientes) ==
    /\ turno < maxTurnos
    /\ Cardinality(pendientes) < maxPendientes
    /\ Deteccion[mensaje.texto].texto # <<>>
    /\ llm.tipo # "no_objeto"
    /\ \E r \in {Recibir(Mundo, mensaje)} :
       LET e == r.w.estados[r.estado]
           accion == Decidir(llm)
           llamada == Llamada(accion, mensaje, e)
           f == [n |-> turno + 1, mensaje |-> mensaje, doc |-> r.doc,
                 historial |-> r.historial, estado |-> r.estado,
                 accion |-> accion, llamada |-> llamada[1], previo |-> e,
                 base |-> Respuesta(IF llm.tipo = "objeto" THEN "modelo" ELSE "defecto")]
       IN  /\ llamada # None
           /\ Asentar(r.w, pendientes \cup {f})
           /\ visitas' = IF llamada = Some("visita")
                         THEN visitas \cup {[n |-> turno + 1, doc |-> r.doc,
                                             payload |-> Payload(e)]}
                         ELSE visitas
    /\ turno' = turno + 1
    /\ UNCHANGED ultima


\* The rest of the turn of frame f once its call has been answered: w is the
\* store after the branch, then lines 381-392.
Terminar(f, w, respuesta, detalle, http) ==
    /\ Asentar(Guardar(w, f.doc, f.historial, f.n), pendientes \ {f})
    /\ ultima' = Retorno(f.n, f.mensaje, 200,
                         Some(Sobre(f.accion, respuesta, detalle)),
                         Some(f.previo), Some(f.llamada), Some(http))
    /\ UNCHANGED <<turno, visitas>>

\* ReanudarMembresia dropping the session when the lookup fails
ReanudarMembresia_Reinicia(f, http) ==
    /\ f \in pendientes
    /\ f.llamada = "membresia"
    /\ LET res == verificar_membresia_activa(http)
           detalle == [SinDetalle EXCEPT !.membresia = Some(res)]
       IN  IF res.ok /\ res.paciente # None
           THEN Terminar(f, [Mundo EXCEPT !.estados[f.estado].paciente_id =
                                             Some(res.paciente[1].id_paciente)],
                         Respuesta("membresia_activa"), detalle, http)
           ELSE Terminar(f, [Mundo EXCEPT !.usu = Quitar(@, f.doc)],
                         Respuesta("sin_membresia"), detalle, http)

\* lines 288-295, and the handler of line 377 when res has no "paciente"
ReanudarMembresia(f, http) ==
    /\ f \in pendientes
    /\ f.llamada = "membresia"
    /\ LET res == verificar_membresia_activa(http)
           detalle == [SinDetalle EXCEPT !.membresia = Some(res)]
       IN  IF res.ok /\ res.paciente # None
           THEN Terminar(f, [Mundo EXCEPT !.estados[f.estado].paciente_id =
                                             Some(res.paciente[1].id_paciente)],
                         Respuesta("membresia_activa"), detalle, http)
           ELSE IF res.ok
           THEN Terminar(f, Mundo, Respuesta("error_accion"), detalle, http)
           ELSE Terminar(f, Mundo, Respuesta("sin_membresia"), detalle, http)

\* lines 299-307
ReanudarMedicos(f, http) ==
    /\ f \in pendientes
    /\ f.llamada = "medicos"
    /\ LET medicos == get_medicos(http)
       IN  IF medicos # None /\ Len(medicos[1]) > 0
           THEN Terminar(f, [Mundo EXCEPT !.estados[f.estado].medicos_cache = medicos[1]],
                         IF ~TruthyInt(estados[f.estado].medico_id)
                         THEN Respuesta("seleccione_medico") ELSE f.base,
                         [SinDetalle EXCEPT !.medicos =
                             Some([i \in 1..Len(medicos[1]) |-> NombreCompleto(medicos[1][i])])],
                         http)
           ELSE Terminar(f, Mundo, Respuesta("no_medicos"), SinDetalle, http)

\* lines 311-319
ReanudarBarrios(f, http) ==
    /\ f \in pendientes
    /\ f.llamada = "barrios"
    /\ LET barrios == get_barrios(http)
       IN  IF barrios # None /\ Len(barrios[1]) > 0
           THEN Terminar(f, [Mundo EXCEPT !.estados[f.estado].barrios_cache = barrios[1]],
                         IF ~TruthyInt(estados[f.estado].barrio_id)
                         THEN Respuesta("seleccione_barrio") ELSE f.base,
                         [SinDetalle EXCEPT !.barrios =
                             Some([i \in 1..Len(barrios[1]) |-> barrios[1][i].nombreBarrio])],
                         http)
           ELSE Terminar(f, Mundo, Respuesta("no_barrios"), SinDetalle, http)

\* lines 365-372
ReanudarVisita(f, http) ==
    /\ f \in pendientes
    /\ f.llamada = "visita"
    /\ LET visita == crear_visita(http)
           detalle == [SinDetalle EXCEPT !.visita = Some(visita)]
       IN  IF visita.ok
           THEN Terminar(f, [Mundo EXCEPT !.conv = Quitar(@, f.doc),
                                          !.usu = Quitar(@, f.doc)],
                         Respuesta("visita_creada"), detalle, http)
           ELSE Terminar(f, Mundo, Respuesta("problema_visita"), detalle, http)

(***************************************************************************)
(* Specification                                                           *)
(***************************************************************************)
Init ==
    /\ conversaciones = Vacio
    /\ estado_usuario = Vacio
    /\ listas = <<>>
    /\ estados = <<>>
    /\ pendientes = {}
    /\ turno = 0
    /\ visitas = {}
    /\ ultima = None

\* The steps of the program in an environment: the requests that arrive
\* (textos, documentos), what the chat completion may produce (llm), what
\* the backend may answer to each call, and the bounds of the run.
Rechaza(amb) ==
    \/ \E t \in amb.textos, d \in amb.documentos :
          ChatVacio([texto |-> t, documento |-> d], amb.turnos)
    \/ \E t \in amb.textos, d \in amb.documentos, llm \in amb.llm :
          ChatNoObjeto([texto |-> t, documento |-> d], llm, amb.turnos)

Atiende(amb) ==
    \/ \E t \in amb.textos, d \in amb.documentos, llm \in amb.llm :
          ChatDirecto([texto |-> t, documento |-> d], llm, amb.turnos)
    \/ \E t \in amb.textos, d \in amb.documentos, llm \in amb.llm :
          ChatLlamar([texto |-> t, documento |-> d], llm, amb.turnos, amb.pendientes)

Reanuda(amb) ==
    \/ \E f \in pendientes, http \in amb.membresia : ReanudarMembresia(f, http)
    \/ \E f \in pendientes, http \in amb.medicos : ReanudarMedicos(f, http)
    \/ \E f \in pendientes, http \in amb.barrios : ReanudarBarrios(f, http)
    \/ \E f \in pendientes, http \in amb.visita : ReanudarVisita(f, http)

Objeto(a) == [tipo |-> "objeto", accion |-> Some(a)]

DosMedicos ==
    Http(200, Some(<<Medico(1, N_Ana, N_Paz, TRUE, TRUE), Medico(2, N_Luis, N_Gil, TRUE, TRUE)>>))

DosBarrios ==
    Http(200, Some(<<Barrio(1, N_Modelo, TRUE), Barrio(2, N_Centro, TRUE)>>))

\* The visit flow of one caller from the first message to the creation:
\* every action of the flow, every answer of the backend to the membership
\* lookup and to the creation, and a text that fills the slots.
Flujo ==
    [textos |-> {T_a},
     documentos |-> {Some("123")},
     llm |-> {Objeto("verificar_membresia"), Objeto("listar_medicos"),
              Objeto("listar_barrios"), Objeto("crear_visita")},
     membresia |-> MembresiaHttp,
     medicos |-> {DosMedicos, SinRespuesta},
     barrios |-> {DosBarrios, SinRespuesta},
     visita |-> VisitaHttp,
     turnos |-> MaxTurnos,
     pendientes |-> MaxPendientes]

Next == Atiende(Flujo) \/ Reanuda(Flujo)

Spec == Init /\ [][Next]_vars

\* Slot filling: two texts that carry different values for every slot, the
\* listings and the membership lookup with every answer.
Relleno ==
    [textos |-> {T_a, T_b},
     documentos |-> {Some("123")},
     llm |-> {Objeto("verificar_membresia"), Objeto("listar_medicos"),
              Objeto("listar_barrios"), Objeto("info")},
     membresia |-> MembresiaHttp,
     medicos |-> {DosMedicos, SinRespuesta},
     barrios |-> {DosBarrios, ErrorServidor},
     turnos |-> MaxTurnosRelleno,
     pendientes |-> MaxPendientes]

NextRelleno ==
    \/ Atiende(Relleno)
    \/ \E f \in pendientes, http \in Relleno.membresia : ReanudarMembresia(f, http)
    \/ \E f \in pendientes, http \in Relleno.medicos : ReanudarMedicos(f, http)
    \/ \E f \in pendientes, http \in Relleno.barrios : ReanudarBarrios(f, http)

SpecRelleno == Init /\ [][NextRelleno]_vars

\* A long conversation of one caller.
Charla ==
    [textos |-> {T_si},
     documentos |-> {Some("123")},
     llm |-> {Objeto("info"), Objeto("listar_medicos")},
     medicos |-> {SinRespuesta},
     turnos |-> MaxTurnosHistorial,
     pendientes |-> MaxPendientes]

NextHistorial ==
    \/ Atiende(Charla)
    \/ \E f \in pendientes, http \in Charla.medicos : ReanudarMedicos(f, http)

SpecHistorial == Init /\ [][NextHistorial]_vars

\* Every kind of request (with and without document, blank text) and every
\* kind of output of the chat completion.
General ==
    [textos |-> {T_cancelar, T_si, T_blanco},
     documentos |-> Documentos,
     llm |-> LLMSalidas,
     membresia |-> MembresiaHttp,
     medicos |-> MedicosHttp,
     barrios |-> BarriosHttp,
     turnos |-> MaxTurnosGeneral,
     pendientes |-> MaxPendientes]

NextGeneral ==
    \/ Rechaza(General)
    \/ Atiende(General)
    \/ \E f \in pendientes, http \in General.membresia : ReanudarMembresia(f, http)
    \/ \E f \in pendientes, http \in General.medicos : ReanudarMedicos(f, http)
    \/ \E f \in pendientes, http \in General.barrios : ReanudarBarrios(f, http)

SpecGeneral == Init /\ [][NextGeneral]_vars

MembresiaActiva == Http(200, Some([ok |-> TRUE, paciente |-> Some(PacienteBackend)]))

VisitaCreada == Http(201, Some([id_visita |-> Some(1)]))

\* A booking with its confirmation: the utterance that fills the slots and
\* an affirmative, the backend answering every call.
Reserva ==
    [textos |-> {T_a, T_si},
     documentos |-> {Some("123")},
     llm |-> {Objeto("verificar_membresia"), Objeto("listar_medicos"),
              Objeto("listar_barrios"), Objeto("confirmar_datos"),
              Objeto("crear_visita")},
     membresia |-> {MembresiaActiva},
     medicos |-> {DosMedicos},
     barrios |-> {DosBarrios},
     visita |-> {VisitaCreada, ErrorServidor},
     turnos |-> MaxTurnosReserva,
     pendientes |-> MaxPendientes]

NextReserva == Atiende(Reserva) \/ Reanuda(Reserva)

SpecReserva == Init /\ [][NextReserva]_vars

\* Requests of one caller served while others of the same caller wait for
\* the backend.
Concurrente ==
    [textos |-> {T_a},
     documentos |-> {Some("123")},
     llm |-> {Objeto("verificar_membresia"), Objeto("listar_medicos"),
              Objeto("listar_barrios"), Objeto("crear_visita")},
     membresia |-> {MembresiaActiva},
     medicos |-> {DosMedicos},
     barrios |-> {DosBarrios},
     visita |-> {VisitaCreada, ErrorServidor},
     turnos |-> MaxTurnosConcurrente,
     pendientes |-> MaxPendientesConcurrente]

NextConcurrente == Atiende(Concurrente) \/ Reanuda(Concurrente)

SpecConcurrente == Init /\ [][NextConcurrente]_vars

\* Selection of a doctor and a neighborhood from the cached listings, with
\* utterances that name the first, the second or none of the cached records.
Seleccion ==
    [textos |-> {T_modelo, T_ana, T_b, T_si},
     documentos |-> {Some("123")},
     llm |-> {Objeto("listar_medicos"), Objeto("listar_barrios"), Objeto("info")},
     medicos |-> {DosMedicos},
     barrios |-> {DosBarrios},
     turnos |-> MaxTurnosSeleccion,
     pendientes |-> MaxPendientes]

NextSeleccion ==
    \/ Atiende(Seleccion)
    \/ \E f \in pendientes, http \in Seleccion.medicos : ReanudarMedicos(f, http)
    \/ \E f \in pendientes, http \in Seleccion.barrios : ReanudarBarrios(f, http)

SpecSeleccion == Init /\ [][NextSeleccion]_vars

\* A booking in which the listings come with records that are not active or
\* not available, or empty.
Oferta ==
    [textos |-> {T_a},
     documentos |-> {Some("123")},
     llm |-> {Objeto("verificar_membresia"), Objeto("listar_medicos"),
              Objeto("listar_barrios"), Objeto("crear_visita")},
     membresia |-> {MembresiaActiva},
     medicos |-> {Http(200, Some(l)) : l \in MedicosBackend},
     barrios |-> {Http(200, Some(l)) : l \in BarriosBackend},
     visita |-> {VisitaCreada},
     turnos |-> MaxTurnosOferta,
     pendientes |-> MaxPendientes]

NextOferta == Atiende(Oferta) \/ Reanuda(Oferta)

SpecOferta == Init /\ [][NextOferta]_vars

(***************************************************************************)
(* Vocabulary of the properties                                            *)
(***************************************************************************)
\* the six required fields of slot dict e are non-null and non-empty
Completo(e) ==
    /\ e.paciente_id # None
    /\ e.medico_id # None
    /\ e.barrio_id # None
    /\ e.telefono # None /\ e.telefono # Some(<<>>)
    /\ e.direccion # None /\ e.direccion # Some(<<>>)
    /\ e.motivo # None /\ e.motivo # Some(<<>>)

\* the slot dict stored for caller key k
Sesion(k) == estados[estado_usuario[k]]

\* this step returns a response
Retorna == ultima' # None /\ (ultima = None \/ ultima'[1].n # ultima[1].n)

\* this step is the return of the suspended handler f
Termina(f) == f \in pendientes /\ \A g \in pendientes' : g.n # f.n

\* this step suspends a handler at a backend call
Suspende(g) == g \in pendientes' /\ \A f \in pendientes : f.n # g.n

\* a 2xx answer to POST /visitas that carries the identifier of the visit
CreadaConId(http) ==
    /\ http.status \in 200..299
    /\ http.cuerpo # None
    /\ http.cuerpo[1].id_visita # None

(***************************************************************************)
(* C1                                                                      *)
(***************************************************************************)
\* C1: a POST /visitas is sent only by a handler whose slot dict has, at
\* that moment, the six required fields filled, and it carries them; no
\* visit is requested while paciente_id is unset.
C1_CrearSoloCompleto ==
    [][\A v \in visitas' \ visitas :
          \E g \in pendientes' :
             /\ Suspende(g) /\ g.n = v.n /\ g.llamada = "visita"
             /\ Completo(estados'[g.estado])
             /\ estados'[g.estado].paciente_id # None
             /\ v.payload.paciente_id = estados'[g.estado].paciente_id
             /\ v.payload.medico_id = estados'[g.estado].medico_id
             /\ v.payload.barrio_id = estados'[g.estado].barrio_id
             /\ v.payload.telefono = estados'[g.estado].telefono
             /\ v.payload.direccion = estados'[g.estado].direccion
             /\ v.payload.descripcion = estados'[g.estado].motivo]_vars

\* a visit has been requested for a verified patient
C1_Testigo ==
    \E v \in visitas : v.payload.paciente_id = Some(PacienteBackend.id_paciente)

(***************************************************************************)
(* C2                                                                      *)
(***************************************************************************)
\* C2: when the handler returns from a turn in which the visit was created
\* for caller key k, neither estado_usuario[k] nor conversaciones[k] exists.
C2_SinSesionTrasCrear ==
    [][(Retorna /\ ultima'[1].status = 200
                /\ ultima'[1].sobre[1].respuesta.tipo = "visita_creada"
                /\ CreadaConId(ultima'[1].http[1]))
          => /\ ultima'[1].doc \notin DOMAIN estado_usuario'
             /\ ultima'[1].doc \notin DOMAIN conversaciones']_vars

(***************************************************************************)
(* C3                                                                      *)
(***************************************************************************)
\* C3: when the creation call ends in anything but a 2xx answer carrying
\* the identifier of the visit, the session of the caller still exists
\* after the turn and its slot dict is the one it had before.
C3_FalloConservaSesion ==
    [][\A f \in pendientes :
          (Termina(f) /\ f.llamada = "visita" /\ ~CreadaConId(ultima'[1].http[1]))
          => /\ f.doc \in DOMAIN estado_usuario'
             /\ f.doc \in DOMAIN conversaciones'
             /\ estados'[estado_usuario'[f.doc]] = estados[f.estado]]_vars

Ausentes(e) ==
    SelectSeq(<<"paciente_id", "medico_id", "barrio_id", "telefono", "direccion", "motivo">>,
              LAMBDA c : \/ e[c] = None
                         \/ c \in {"telefono", "direccion", "motivo"} /\ e[c] = Some(<<>>))

MembresiaHallada(http) ==
    /\ http.status \in 200..299
    /\ http.cuerpo # None
    /\ http.cuerpo[1].ok
    /\ http.cuerpo[1].paciente # None

\* C5: when the membership lookup of a turn fails (not found, no answer,
\* non-2xx), the return of that turn leaves the session of the caller in
\* place and its slot dict, paciente_id and the caches included, exactly as
\* it was.
C5_FalloMembresiaLocal ==
    [][\A f \in pendientes :
          (/\ Termina(f) /\ f.llamada = "membresia"
           /\ ~MembresiaHallada(ultima'[1].http[1])
           /\ f.doc \in DOMAIN estado_usuario
           /\ estado_usuario[f.doc] = f.estado)
          => /\ f.doc \in DOMAIN estado_usuario'
             /\ f.doc \in DOMAIN conversaciones'
             /\ estados'[estado_usuario'[f.doc]] = estados[f.estado]
             /\ (estados[f.estado].paciente_id = None
                   => estados'[estado_usuario'[f.doc]].paciente_id = None)]_vars

\* a failed lookup has returned for a session that had collected a phone
\* and has no patient
C5_Testigo ==
    /\ ultima # None
    /\ ultima[1].llamada = Some("membresia")
    /\ ~MembresiaHallada(ultima[1].http[1])
    /\ ultima[1].doc \in DOMAIN estado_usuario
    /\ Sesion(ultima[1].doc).telefono # None
    /\ Sesion(ultima[1].doc).paciente_id = None

(***************************************************************************)
(* C6                                                                      *)
(***************************************************************************)
\* C6: a turn whose backend call got no answer or a non-2xx answer returns
\* an envelope with ok = false.
C6_FalloOkFalso ==
    (/\ ultima # None
     /\ ultima[1].llamada # None
     /\ ultima[1].http[1].status \notin 200..299)
       => ultima[1].sobre[1].ok = FALSE

(***************************************************************************)
(* C7                                                                      *)
(***************************************************************************)
\* the slots an utterance can fill
Rellenables ==
    {"telefono", "direccion", "motivo", "nombre",
     "medico_id", "medico_nombre", "barrio_id", "barrio_nombre"}

\* C7: in every step, a slot that is filled in the slot dict of a session
\* has the same value afterwards, as long as the session exists.
C7_RanuraInmutable ==
    [][\A k \in DOMAIN estado_usuario \cap DOMAIN estado_usuario' :
          \A c \in Rellenables :
             estados[estado_usuario[k]][c] # None
                => estados'[estado_usuario'[k]][c] = estados[estado_usuario[k]][c]]_vars

\* the last utterance carries a phone and names a doctor other than the
\* ones the session already holds
C7_Testigo ==
    /\ ultima # None
    /\ ultima[1].texto = Strip(T_b)
    /\ ultima[1].doc \in DOMAIN estado_usuario
    /\ Sesion(ultima[1].doc).telefono = Deteccion[T_a].tel
    /\ Deteccion[T_b].tel # None
    /\ Deteccion[T_b].tel # Deteccion[T_a].tel
    /\ Sesion(ultima[1].doc).medico_id = Some(1)
    /\ Sesion(ultima[1].doc).medico_nombre = Some(N_Ana \o <<" ">> \o N_Paz)

(***************************************************************************)
(* C8                                                                      *)
(***************************************************************************)
\* the last ten entries of list l
DiezUltimas(l) == [i \in 1..(IF Len(l) < 10 THEN Len(l) ELSE 10) |->
                      l[i + (IF Len(l) < 10 THEN 0 ELSE Len(l) - 10)]]

\* the list the handler of the returning turn n held before this step
ListaDe(n, k) ==
    IF \E f \in pendientes : f.n = n
    THEN listas[(CHOOSE f \in pendientes : f.n = n).historial]
    ELSE IF k \in DOMAIN conversaciones THEN listas[conversaciones[k]] ELSE <<>>

\* C8: a stored history never has more than ten entries, and the history
\* stored by a turn is the last ten entries, in their order, of what the
\* handler held followed by the user and the assistant entry of the turn.
C8_HistorialAcotado ==
    /\ [](\A k \in DOMAIN conversaciones : Len(listas[conversaciones[k]]) <= 10)
    /\ [][(Retorna /\ ultima'[1].status = 200)
            => listas'[conversaciones'[ultima'[1].doc]] =
                  DiezUltimas(ListaDe(ultima'[1].n, ultima'[1].doc)
                                \o << [role |-> "user", content |-> ultima'[1].n],
                                      [role |-> "assistant", content |-> ultima'[1].n] >>)]_vars

\* a full history whose oldest entries have been evicted
C8_Testigo ==
    \E k \in DOMAIN conversaciones :
       /\ Len(listas[conversaciones[k]]) = 10
       /\ listas[conversaciones[k]][1].content > 1
       /\ listas[conversaciones[k]][10].content = turno

(***************************************************************************)
(* C9                                                                      *)
(***************************************************************************)
\* the utterance asks for a cancellation
EsCancelacion(texto) == Contiene(Lower(texto), <<"c", "a", "n", "c", "e", "l", "a", "r">>)

\* C9: a turn whose utterance asks for a cancellation returns the action
\* cancelar, makes no backend call, and leaves no session for the caller.
C9_CancelarBorraSesion ==
    [][(Retorna /\ ultima'[1].status = 200 /\ EsCancelacion(ultima'[1].texto))
          => /\ ultima'[1].sobre[1].accion = "cancelar"
             /\ ultima'[1].llamada = None
             /\ ultima'[1].doc \notin DOMAIN estado_usuario'
             /\ ultima'[1].doc \notin DOMAIN conversaciones']_vars

(***************************************************************************)
(* C10                                                                     *)
(***************************************************************************)
\* C10: two turns returned one after the other, decided on equal slot
\* dicts and equal utterances, return the same action.
C10_AccionDeterminista ==
    [][(/\ Retorna /\ ultima # None
        /\ ultima[1].status = 200 /\ ultima'[1].status = 200
        /\ ultima'[1].texto = ultima[1].texto
        /\ ultima'[1].previo = ultima[1].previo)
          => ultima'[1].sobre[1].accion = ultima[1].sobre[1].accion]_vars

(***************************************************************************)
(* C11                                                                     *)
(***************************************************************************)
\* the utterance is an affirmative
EsAfirmativo(texto) ==
    Lower(Strip(texto)) \in { <<"s", "í">>, <<"s", "i">>,
                              <<"c", "o", "n", "f", "i", "r", "m">>,
                              <<"c", "l", "a", "r", "o">> }

\* C11: a POST /visitas is sent only in a turn whose utterance is an
\* affirmative and that comes right after a turn of the same caller that
\* returned the confirmation summary of the complete slot dict.
C11_ConfirmarAntesDeCrear ==
    [][\A g \in pendientes' :
          (Suspende(g) /\ g.llamada = "visita")
          => /\ EsAfirmativo(g.mensaje.texto)
             /\ ultima # None
             /\ ultima[1].doc = g.doc
             /\ ultima[1].status = 200
             /\ ultima[1].sobre[1].accion = "confirmar_datos"
             /\ ultima[1].sobre[1].respuesta.tipo = "resumen"]_vars

(***************************************************************************)
(* C12                                                                     *)
(***************************************************************************)
\* C12: a session starts with paciente_id unset, and in every step the
\* paciente_id of a session is the one it had, unless the step is the
\* return of a membership lookup made with the caller's document that
\* answered with a patient, whose id it then is.
C12_PacienteDeMembresia ==
    [][\A k \in DOMAIN estado_usuario' :
          /\ k \notin DOMAIN estado_usuario
                => estados'[estado_usuario'[k]].paciente_id = None
          /\ (/\ k \in DOMAIN estado_usuario
              /\ estados'[estado_usuario'[k]].paciente_id # Sesion(k).paciente_id)
                => \E f \in pendientes :
                      /\ Termina(f) /\ f.llamada = "membresia"
                      /\ f.mensaje.documento = Some(k)
                      /\ MembresiaHallada(ultima'[1].http[1])
                      /\ estados'[estado_usuario'[k]].paciente_id =
                            Some(ultima'[1].http[1].cuerpo[1].paciente[1].id_paciente)]_vars

\* a lookup that found the patient has returned and the session holds the
\* patient's id
C12_Testigo ==
    /\ ultima # None
    /\ ultima[1].llamada = Some("membresia")
    /\ MembresiaHallada(ultima[1].http[1])
    /\ ultima[1].doc \in DOMAIN estado_usuario
    /\ Sesion(ultima[1].doc).paciente_id = Some(PacienteBackend.id_paciente)

(***************************************************************************)
(* C13                                                                     *)
(***************************************************************************)
\* C13: while paciente_id of a session is unset its caches are empty and no
\* doctor or neighborhood is bound.
C13_MembresiaAntesDeTodo ==
    \A k \in DOMAIN estado_usuario :
       Sesion(k).paciente_id = None
          => /\ Sesion(k).medicos_cache = <<>>
             /\ Sesion(k).barrios_cache = <<>>
             /\ Sesion(k).medico_id = None
             /\ Sesion(k).barrio_id = None

(***************************************************************************)
(* C14                                                                     *)
(***************************************************************************)
\* C14: in every slot dict, of a session or held by a suspended handler,
\* medico_id is set exactly when medico_nombre is, and barrio_id exactly
\* when barrio_nombre is.
C14_IdSiiNombre ==
    \A i \in DOMAIN estados :
       /\ (estados[i].medico_id # None) <=> (estados[i].medico_nombre # None)
       /\ (estados[i].barrio_id # None) <=> (estados[i].barrio_nombre # None)

\* a session with a doctor bound and no neighborhood bound
C14_Testigo ==
    \E k \in DOMAIN estado_usuario :
       /\ Sesion(k).medico_id = Some(2)
       /\ Sesion(k).medico_nombre = Some(N_Luis \o <<" ">> \o N_Gil)
       /\ Sesion(k).barrio_id = None
       /\ Sesion(k).barrio_nombre = None

(***************************************************************************)
(* C15                                                                     *)
(***************************************************************************)
\* C15: every request with a non-empty text, whatever the chat completion
\* produced, is answered with status 200 and an envelope.
C15_ClasificacionNoFalla ==
    [][(Retorna /\ ultima'[1].texto # <<>>)
          => /\ ultima'[1].status = 200
             /\ ultima'[1].sobre # None]_vars

(***************************************************************************)
(* C16                                                                     *)
(***************************************************************************)
\* the doctors of a listing that are active and available, in its order
MedicosActivos(l) == SelectSeq(l, LAMBDA m : m.estado /\ m.disponibilidad)

\* the neighborhoods of a listing that are active, in its order
BarriosActivos(l) == SelectSeq(l, LAMBDA b : b.estado)

\* a 2xx answer with a JSON body
Listado(http) == http.status \in 200..299 /\ http.cuerpo # None

\* C16: the doctor cache of a session changes only at the return of a
\* doctor listing answered with a list whose active and available doctors
\* are some, and is then those doctors in the order of the answer; the same
\* for the neighborhood cache with the active neighborhoods; a listing that
\* failed or has none of them leaves the session and its slot dict as they
\* were.
C16_CacheSoloPorListado ==
    [][/\ \A k \in DOMAIN estado_usuario \cap DOMAIN estado_usuario' :
             /\ estados'[estado_usuario'[k]].medicos_cache # Sesion(k).medicos_cache
                   => \E f \in pendientes :
                         /\ Termina(f) /\ f.llamada = "medicos" /\ f.doc = k
                         /\ Listado(ultima'[1].http[1])
                         /\ MedicosActivos(ultima'[1].http[1].cuerpo[1]) # <<>>
                         /\ estados'[estado_usuario'[k]].medicos_cache =
                               MedicosActivos(ultima'[1].http[1].cuerpo[1])
             /\ estados'[estado_usuario'[k]].barrios_cache # Sesion(k).barrios_cache
                   => \E f \in pendientes :
                         /\ Termina(f) /\ f.llamada = "barrios" /\ f.doc = k
                         /\ Listado(ultima'[1].http[1])
                         /\ BarriosActivos(ultima'[1].http[1].cuerpo[1]) # <<>>
                         /\ estados'[estado_usuario'[k]].barrios_cache =
                               BarriosActivos(ultima'[1].http[1].cuerpo[1])
       /\ \A f \in pendientes :
             (/\ Termina(f) /\ f.llamada \in {"medicos", "barrios"}
              /\ f.doc \in DOMAIN estado_usuario
              /\ \/ ~Listado(ultima'[1].http[1])
                 \/ f.llamada = "medicos"
                      /\ MedicosActivos(ultima'[1].http[1].cuerpo[1]) = <<>>
                 \/ f.llamada = "barrios"
                      /\ BarriosActivos(ultima'[1].http[1].cuerpo[1]) = <<>>)
             => /\ f.doc \in DOMAIN estado_usuario'
                /\ estados'[estado_usuario'[f.doc]] = Sesion(f.doc)]_vars

\* a doctor listing with a doctor that is not available has returned and
\* the cache holds the one that is
C16_Testigo ==
    /\ ultima # None
    /\ ultima[1].llamada = Some("medicos")
    /\ Listado(ultima[1].http[1])
    /\ Len(ultima[1].http[1].cuerpo[1]) = 2
    /\ ultima[1].doc \in DOMAIN estado_usuario
    /\ Len(Sesion(ultima[1].doc).medicos_cache) = 1
    /\ Sesion(ultima[1].doc).medicos_cache[1].id_medico = 2

(***************************************************************************)
(* C17                                                                     *)
(***************************************************************************)
\* this step receives a request and runs the extraction pass on it
Recibe ==
    /\ turno' = turno + 1
    /\ \/ \E g \in pendientes' : g.n = turno'
       \/ ultima'[1].n = turno' /\ ultima'[1].previo # None

\* the caller key, the utterance, and the slot dict before and after the
\* extraction pass, of the request received in this step
Recibido ==
    IF \E g \in pendientes' : g.n = turno'
    THEN LET g == CHOOSE g \in pendientes' : g.n = turno'
         IN  [doc |-> g.doc, texto |-> Strip(g.mensaje.texto), despues |-> g.previo]
    ELSE [doc |-> ultima'[1].doc, texto |-> ultima'[1].texto,
          despues |-> ultima'[1].previo[1]]

\* the slot dict of caller k before the step, None when k has no session
Antes(k) == IF k \in DOMAIN estado_usuario THEN Some(Sesion(k)) ELSE None

\* the positions of the cached doctors whose first name or full name occurs,
\* whatever the case, in the utterance, given in lower case
MedicosNombrados(cache, minusculas) ==
    {i \in 1..Len(cache) :
        \/ Contiene(minusculas, Lower(cache[i].usuario.nombre))
        \/ Contiene(minusculas, Lower(cache[i].usuario.nombre \o <<" ">>
                                        \o cache[i].usuario.apellido))}

\* the positions of the cached neighborhoods whose name occurs in it
BarriosNombrados(cache, minusculas) ==
    {i \in 1..Len(cache) : Contiene(minusculas, Lower(cache[i].nombreBarrio))}

\* C17: the extraction pass on a slot dict with doctors cached and none
\* bound binds the first cached doctor whose first name or full name occurs
\* in the utterance, and leaves medico_id, medico_nombre and the cache as
\* they were when none does; the same for neighborhoods by their name.
C17_SeleccionDeCache ==
    [][Recibe =>
         \A r \in {Recibido} :
            Antes(r.doc) # None =>
               \A e \in {Sesion(r.doc)}, minusculas \in {Lower(r.texto)} :
               \A M \in {MedicosNombrados(e.medicos_cache, minusculas)},
                  B \in {BarriosNombrados(e.barrios_cache, minusculas)} :
                  /\ (e.medicos_cache # <<>> /\ e.medico_id = None)
                        => /\ r.despues.medicos_cache = e.medicos_cache
                           /\ IF M # {}
                              THEN /\ r.despues.medico_id =
                                         Some(e.medicos_cache[Min(M)].id_medico)
                                   /\ r.despues.medico_nombre =
                                         Some(e.medicos_cache[Min(M)].usuario.nombre
                                              \o <<" ">>
                                              \o e.medicos_cache[Min(M)].usuario.apellido)
                              ELSE /\ r.despues.medico_id = None
                                   /\ r.despues.medico_nombre = None
                  /\ (e.barrios_cache # <<>> /\ e.barrio_id = None)
                        => /\ r.despues.barrios_cache = e.barrios_cache
                           /\ IF B # {}
                              THEN /\ r.despues.barrio_id =
                                         Some(e.barrios_cache[Min(B)].idBarrio)
                                   /\ r.despues.barrio_nombre =
                                         Some(e.barrios_cache[Min(B)].nombreBarrio)
                              ELSE /\ r.despues.barrio_id = None
                                   /\ r.despues.barrio_nombre = None]_vars

\* the utterance "Modelo" has bound the first cached neighborhood and no
\* doctor of a cache of two
C17_Testigo ==
    /\ ultima # None
    /\ ultima[1].texto = T_modelo
    /\ ultima[1].doc \in DOMAIN estado_usuario
    /\ Sesion(ultima[1].doc).barrio_id = Some(1)
    /\ Sesion(ultima[1].doc).barrio_nombre = Some(N_Modelo)
    /\ Len(Sesion(ultima[1].doc).medicos_cache) = 2
    /\ Sesion(ultima[1].doc).medico_id = None

(***************************************************************************)
(* C18                                                                     *)
(***************************************************************************)
\* C18: a turn of a request without document asks for the document, sends
\* no membership lookup, and leaves paciente_id of the session unset.
C18_SinDocumentoPideCedula ==
    [][(Retorna /\ ultima'[1].status = 200 /\ ultima'[1].doc = "default")
          => /\ ultima'[1].sobre[1].respuesta.tipo = "pedir_cedula"
             /\ ultima'[1].llamada # Some("membresia")
             /\ "default" \in DOMAIN estado_usuario'
                   => estados'[estado_usuario'["default"]].paciente_id = None]_vars

(***************************************************************************)
(* C19                                                                     *)
(***************************************************************************)
\* C19: a turn whose extraction pass fills telefono, unset before, while no
\* doctor is bound, fetches the doctor listing.
C19_TelefonoListaMedicos ==
    [][Recibe =>
         \A r \in {Recibido} :
            (/\ Antes(r.doc) # None => Sesion(r.doc).telefono = None
             /\ r.despues.telefono # None
             /\ r.despues.medico_id = None)
            => \E g \in pendientes' : g.n = turno' /\ g.llamada = "medicos"]_vars

(***************************************************************************)
(* C20                                                                     *)
(***************************************************************************)
\* C20: no two handlers are suspended at a POST /visitas sent from the same
\* slot dict, and a handler that returns after the session of its caller
\* was removed stores nothing under the caller's key.
C20_UnaCreacionPorSesion ==
    /\ [](\A f \in pendientes, g \in pendientes :
             (f.llamada = "visita" /\ g.llamada = "visita" /\ f.estado = g.estado)
                => f.n = g.n)
    /\ [][\A f \in pendientes :
             (Termina(f) /\ f.doc \notin DOMAIN estado_usuario)
                => f.doc \notin DOMAIN conversaciones']_vars

(***************************************************************************)
(* C21                                                                     *)
(***************************************************************************)
\* C21: every cached doctor is active and available and every cached
\* neighborhood active; in every step, a medico_id or barrio_id that a
\* session did not have before is the id of a record of the cache the
\* session had before the step; and a POST /visitas carries the medico_id
\* and barrio_id bound in the slot dict it is sent from.
C21_SoloOfrecidos ==
    /\ [](\A i \in DOMAIN estados :
             /\ \A j \in 1..Len(estados[i].medicos_cache) :
                   /\ estados[i].medicos_cache[j].estado
                   /\ estados[i].medicos_cache[j].disponibilidad
             /\ \A j \in 1..Len(estados[i].barrios_cache) :
                   estados[i].barrios_cache[j].estado)
    /\ [][/\ \A k \in DOMAIN estado_usuario' :
                /\ (/\ estados'[estado_usuario'[k]].medico_id # None
                    /\ Antes(k) # None => Sesion(k).medico_id = None)
                      => /\ Antes(k) # None
                         /\ \E j \in 1..Len(Sesion(k).medicos_cache) :
                               Some(Sesion(k).medicos_cache[j].id_medico) =
                                  estados'[estado_usuario'[k]].medico_id
                /\ (/\ estados'[estado_usuario'[k]].barrio_id # None
                    /\ Antes(k) # None => Sesion(k).barrio_id = None)
                      => /\ Antes(k) # None
                         /\ \E j \in 1..Len(Sesion(k).barrios_cache) :
                               Some(Sesion(k).barrios_cache[j].idBarrio) =
                                  estados'[estado_usuario'[k]].barrio_id
          /\ \A v \in visitas' \ visitas :
                \E g \in pendientes' :
                   /\ g.n = v.n
                   /\ g.doc \in DOMAIN estado_usuario'
                   /\ estado_usuario'[g.doc] = g.estado
                   /\ v.payload.medico_id = estados'[g.estado].medico_id
                   /\ v.payload.barrio_id = estados'[g.estado].barrio_id]_vars

\* a visit has been requested with the doctor and the neighborhood that the
\* utterance named among the cached ones
C21_Testigo ==
    \E f \in pendientes :
       /\ f.llamada = "visita"
       /\ \E v \in visitas :
             /\ v.n = f.n
             /\ v.payload.medico_id = Some(1)
             /\ v.payload.barrio_id = Some(1)
       /\ \E j \in 1..Len(estados[f.estado].medicos_cache) :
             estados[f.estado].medicos_cache[j].id_medico = 1
       /\ \E j \in 1..Len(estados[f.estado].barrios_cache) :
             estados[f.estado].barrios_cache[j].idBarrio = 1

=============================================================================
